---- MODULE Spec2Model ----
(***************************************************************************)
(* xo-cli: the command-line client of an XO server.  The model covers the  *)
(* parameter parser, the session bootstrap (connect / register /          *)
(* unregister), the method invoker and the result-driven transfer         *)
(* dispatcher (handleResult), for the two variants of the program that    *)
(* the repository holds:                                                   *)
(*   "current"  src/unnamed/part_000  (json: values, xo.open(), got.post) *)
(*   "legacy"   src/index.js          (no json:, `.*` value grammar, sent) *)
(* A text is a sequence of one-character strings, so that the regular     *)
(* expression, the prefix test and JSON.parse are computed on characters. *)
(***************************************************************************)
EXTENDS Integers, Sequences, FiniteSets, TLC

VARIABLES
  variant,      \* which source file runs: "current" or "legacy"
  store,        \* the persisted configuration: [server, token], "" = absent
  fs,           \* size of the local file LocalPath, -1 = it does not exist
  lastMgmt,     \* history: the successful register/unregister commands so far
  pc,           \* position of the running invocation
  cmd,          \* the exported function that main dispatched to
  args,         \* its argument list (live until the parse is consumed)
  params,       \* `params` of call / `sieve` of listObjects
  file,         \* `file` of call: params['@']
  storeBefore,  \* history: the store when the invocation started
  target,       \* URL the Xo client of this invocation was built with
  opens,        \* transports opened by this invocation
  signIns,      \* sign-in requests issued by this invocation
  credential,   \* what the sign-in presented: a token, or "password"
  calls,        \* remote method calls issued by this invocation
  sentMethod,   \* method name of the remote call
  sentParams,   \* parameter mapping transmitted with the remote call
  baseUrl,      \* `baseUrl` of call
  result,       \* value the remote call returned
  transfer,     \* branch handleResult took: "none", "download", "upload"
  fileOpens,    \* local file streams opened by this invocation
  httpReqs,     \* HTTP requests issued by this invocation, in order
  remoteLen,    \* download: number of bytes the remote body holds
  responded,    \* download: "no", or how the response declared its length
  progressLen,  \* download: length given to the progress tracker, -1 = none
  nread,        \* download: bytes read from the remote
  tracked,      \* download: bytes passed through the progress tracker
  written,      \* download: bytes written to the local file
  outOpen,      \* download: the output stream has opened (and truncated) the file
  failedStage,  \* download: stage of the pipe in which an error occurred
  output,       \* value the invocation resolved with
  error,        \* failure the invocation rejected with, "none" = no failure
  errTok        \* the token a parse failure names

vars == <<variant, store, fs, lastMgmt, pc, cmd, args, params, file, storeBefore,
          target, opens, signIns, credential, calls, sentMethod, sentParams, baseUrl, result,
          transfer, fileOpens, httpReqs, remoteLen, responded, progressLen,
          nread, tracked, written, outOpen, failedStage, output, error, errTok>>

(***************************************************************************)
(* Bounds.                                                                 *)
(***************************************************************************)
MaxArgs == 2      \* tokens after the command name
MaxLen == 2       \* bytes in a remote body, bytes in the local file

(***************************************************************************)
(* Values.  A JavaScript value is [t, s, b]: its type, its text (the       *)
(* content of a string, the canonical JSON text of a number or object)     *)
(* and its truth value when it is a boolean.                               *)
(***************************************************************************)
Str(s) == [t |-> "string", s |-> s, b |-> FALSE]
Bool(b) == [t |-> "boolean", s |-> <<>>, b |-> b]
Json(t, s) == [t |-> t, s |-> s, b |-> FALSE]
Undefined == [t |-> "undefined", s |-> <<>>, b |-> FALSE]

NoParams == [n \in {} |-> Undefined]

At == <<"@">>
JsonTag == <<"j", "s", "o", "n", ":">>
TrueText == <<"t", "r", "u", "e">>
FalseText == <<"f", "a", "l", "s", "e">>
NullText == <<"n", "u", "l", "l">>
Quote == "\""
Digits == {"0", "1", "2", "3", "4", "5", "6", "7", "8", "9"}
LineTerminators == {"\n", "\r"}

(***************************************************************************)
(* The tokens the model draws argument lists from.                         *)
(***************************************************************************)
Tokens ==
  { <<"a", "=", "x">>,                                        \* a=x
    <<"a", "=">>,                                             \* a=
    <<"b", "=">> \o TrueText,                                 \* b=true
    <<"a", "=">> \o FalseText,                                \* a=false
    <<"a", "=">> \o JsonTag \o <<Quote>> \o TrueText \o <<Quote>>,  \* a=json:"true"
    <<"a", "=">> \o JsonTag \o <<"{">>,                       \* a=json:{
    <<"a", "=">> \o JsonTag \o <<"1">>,                       \* a=json:1
    <<"a", "=">> \o JsonTag \o <<"{", Quote, "a", Quote, ":", "1", "}">>,  \* a=json:{"a":1}
    <<"a", "=", "b", "=", "c">>,                              \* a=b=c
    <<"a", "=", "x", "\n", "y">>,                             \* a=x<LF>y
    <<>>,                                                     \* the empty token
    <<"a">>,                                                  \* a
    <<"=", "x">>,                                             \* =x
    <<"@", "=", "f">> }                                       \* @=f

RECURSIVE ArgLists(_)
ArgLists(n) ==
  IF n = 0 THEN {<<>>}
  ELSE LET shorter == ArgLists(n - 1)
       IN shorter \cup {Append(l, t) : l \in {x \in shorter : Len(x) = n - 1}, t \in Tokens}

\* The argument lists an invocation may be given.
AllArgLists == ArgLists(MaxArgs)

LocalPath == <<"f">>

(***************************************************************************)
(* PARAM_RE and parseParameters.                                           *)
(***************************************************************************)
\* Index of the first "=" of tok, 0 when it has none.
FirstEq(tok) ==
  IF \E i \in 1..Len(tok) : tok[i] = "="
  THEN CHOOSE i \in 1..Len(tok) : tok[i] = "=" /\ \A j \in 1..(i - 1) : tok[j] # "="
  ELSE 0

\* string.slice(n)
Slice(string, n) == SubSeq(string, n + 1, Len(string))

\* arg.match(PARAM_RE): /^([^=]+)=([^]*)$/ in the current variant,
\* /^([^=]+)=(.*)$/ in the legacy one (`.` matches no line terminator).
ParamReLegacy(tok) ==
  /\ FirstEq(tok) >= 2
  /\ \A i \in (FirstEq(tok) + 1)..Len(tok) : tok[i] \notin LineTerminators

ParamReCurrent(tok) == FirstEq(tok) >= 2

PARAM_RE(v, tok) == IF v = "legacy" THEN ParamReLegacy(tok) ELSE ParamReCurrent(tok)

MatchName(tok) == SubSeq(tok, 1, FirstEq(tok) - 1)
MatchValue(tok) == Slice(tok, FirstEq(tok))

\* string.lastIndexOf(search, 0) === 0
StartsWith(string, search) ==
  /\ Len(string) >= Len(search)
  /\ SubSeq(string, 1, Len(search)) = search

\* JSON.parse on the JSON texts without white space, escapes, arrays,
\* fractions or signs, and with at most one member in an object.
IsJsonString(text) ==
  /\ Len(text) >= 2
  /\ text[1] = Quote
  /\ text[Len(text)] = Quote
  /\ \A i \in 2..(Len(text) - 1) : text[i] \notin ({Quote, "\\"} \cup LineTerminators)

IsJsonNumber(text) ==
  /\ Len(text) >= 1
  /\ \A i \in 1..Len(text) : text[i] \in Digits
  /\ (Len(text) > 1 => text[1] # "0")

IsJsonScalar(text) ==
  \/ text \in {TrueText, FalseText, NullText}
  \/ IsJsonNumber(text)
  \/ IsJsonString(text)

\* Index of the ":" that ends the member name of the object text, 0 when none.
MemberColon(text) ==
  IF \E i \in 3..(Len(text) - 1) : text[i] = ":" /\ IsJsonString(SubSeq(text, 2, i - 1))
  THEN CHOOSE i \in 3..(Len(text) - 1) : text[i] = ":" /\ IsJsonString(SubSeq(text, 2, i - 1))
  ELSE 0

IsJsonObject(text) ==
  /\ Len(text) >= 2
  /\ text[1] = "{"
  /\ text[Len(text)] = "}"
  /\ \/ Len(text) = 2
     \/ /\ MemberColon(text) > 0
        /\ IsJsonScalar(SubSeq(text, MemberColon(text) + 1, Len(text) - 1))

JsonValid(text) == IsJsonScalar(text) \/ IsJsonObject(text)

JsonParse(text) ==
  IF text = TrueText THEN Bool(TRUE)
  ELSE IF text = FalseText THEN Bool(FALSE)
  ELSE IF text = NullText THEN Json("null", text)
  ELSE IF IsJsonNumber(text) THEN Json("number", text)
  ELSE IF IsJsonString(text) THEN Str(SubSeq(text, 2, Len(text) - 1))
  ELSE Json("object", text)

\* `value === 'true'` / `value === 'false'`: strict equality with a string.
CoerceBoolean(value) ==
  IF value = Str(TrueText) THEN Bool(TRUE)
  ELSE IF value = Str(FalseText) THEN Bool(FALSE)
  ELSE value

\* The value of one matched token, before it is stored.
DecodeCurrent(raw) ==
  IF StartsWith(raw, JsonTag) THEN JsonParse(Slice(raw, 5)) ELSE Str(raw)

DecodeLegacy(raw) == Str(raw)

Decode(v, raw) == IF v = "legacy" THEN DecodeLegacy(raw) ELSE DecodeCurrent(raw)

\* JSON.parse throws on the value of this token.
JsonThrows(v, tok) ==
  /\ v = "current"
  /\ StartsWith(MatchValue(tok), JsonTag)
  /\ ~JsonValid(Slice(MatchValue(tok), 5))

Parsed(p) == [ok |-> TRUE, params |-> p, err |-> "none", tok |-> <<>>]
ParseError(e, tok) == [ok |-> FALSE, params |-> NoParams, err |-> e, tok |-> tok]

\* The body of the forEach callback of parseParameters, on params p.
StoreParam(v, p, tok) ==
  LET name == MatchName(tok)
      value == Decode(v, MatchValue(tok))
  IN IF name = At THEN (At :> value) @@ p
     ELSE (name :> CoerceBoolean(value)) @@ p

RECURSIVE ParseFrom(_, _, _, _)
ParseFrom(v, list, i, p) ==
  IF i > Len(list) THEN Parsed(p)
  ELSE IF ~PARAM_RE(v, list[i]) THEN ParseError("MalformedArgument", list[i])
  ELSE IF JsonThrows(v, list[i]) THEN ParseError("InvalidJson", list[i])
  ELSE ParseFrom(v, list, i + 1, StoreParam(v, p, list[i]))

parseParameters(v, list) == ParseFrom(v, list, 1, NoParams)

(***************************************************************************)
(* Configuration store, URLs and remote results.                           *)
(***************************************************************************)
NoUrl == [scheme |-> "", rest |-> ""]
ServerUrl == [scheme |-> "http", rest |-> "//h"]
NoToken == ""
Tokens0 == {"t0", "t1"}
Method == "m"

\* config.load() of a store: the object the `then` callback of connect reads.
ConfigLoad(s) == s
\* config.set({server, token})
ConfigSet(s, c) == [s EXCEPT !.server = c.server, !.token = c.token]
\* config.unset(['server', 'token'])
ConfigUnset(s) == [s EXCEPT !.server = NoUrl, !.token = NoToken]

\* A connect without the token guard.
CheckServerOnly(config) == IF config.server = NoUrl THEN "NotConfigured" ELSE "none"

\* A connect with the two guards in the other order.
CheckTokenFirst(config) ==
  IF config.token = NoToken THEN "NotAuthenticated"
  ELSE IF config.server = NoUrl THEN "NotConfigured"
  ELSE "none"

\* The two guards of connect, in order.
CheckConfig(config) ==
  IF config.server = NoUrl THEN "NotConfigured"
  ELSE IF config.token = NoToken THEN "NotAuthenticated"
  ELSE "none"

\* xo._url of a client built with url: the current library keeps a
\* WebSocket URL, the legacy one the URL it was given.
XoUrl(v, url) ==
  IF v = "legacy" THEN url
  ELSE [url EXCEPT !.scheme = IF url.scheme = "https" THEN "wss" ELSE "ws"]

\* xo._url.replace(/^ws/, 'http') in the current variant, xo._url in the legacy one.
BaseUrl(v, url) ==
  IF v = "legacy" THEN url
  ELSE [url EXCEPT !.scheme = IF @ = "ws" THEN "http" ELSE IF @ = "wss" THEN "https" ELSE @]

\* url.resolve(baseUrl, path) for an absolute path.
resolveUrl(base, path) == [scheme |-> base.scheme, rest |-> base.rest, path |-> path]

\* A remote result is [t, f]: its JSON type and its own keys with their values.
NoFields == [k \in {} |-> ""]
Obj(f) == [t |-> "object", f |-> f]
Results ==
  { [t |-> "null", f |-> NoFields],
    [t |-> "number", f |-> NoFields],
    [t |-> "string", f |-> ("0" :> "$")],
    [t |-> "array", f |-> ("0" :> "$getFrom")],
    Obj(NoFields),
    Obj("$getFrom" :> "/p"),
    Obj("$sendTo" :> "/p"),
    Obj("other" :> "/p"),
    Obj(("$getFrom" :> "/p") @@ ("x" :> "1")),
    Obj(("$getFrom" :> "/p") @@ ("$sendTo" :> "/q")) }

NoResult == [t |-> "undefined", f |-> NoFields]
Formatted == [t |-> "string", f |-> ("text" :> "methods")]
Objects(sieve) == [t |-> "array", f |-> ("filter" :> IF sieve = NoParams THEN "all" ELSE "sieve")]
Bodies == {[t |-> "string", f |-> ("body" :> "ok")]}

isObject(r) == r.t \in {"object", "array"}
getKeys(r) == DOMAIN r.f

\* A decision that does not look at the number of keys.
LooseTransferKind(r) ==
  IF isObject(r) /\ "$getFrom" \in getKeys(r) THEN "download"
  ELSE IF isObject(r) /\ "$sendTo" \in getKeys(r) THEN "upload"
  ELSE "none"

\* The decision of handleResult: which transfer, if any, the result asks for.
TransferKind(r) ==
  IF isObject(r) /\ Cardinality(getKeys(r)) = 1
  THEN LET key == CHOOSE k \in getKeys(r) : TRUE
       IN IF key = "$getFrom" THEN "download"
          ELSE IF key = "$sendTo" THEN "upload"
          ELSE "none"
  ELSE "none"

SentinelPath(r) == r.f[CHOOSE k \in getKeys(r) : TRUE]

\* `file = params['@']` and `delete params['@']` of call.
FileOf(p) == IF At \in DOMAIN p THEN p[At] ELSE Undefined
\* A call that does not delete the `@` entry.
KeepFile(p) == p
StripFile(p) == [n \in (DOMAIN p) \ {At} |-> p[n]]

\* createWriteStream and stat take a string (they throw a TypeError on
\* anything else); LocalPath is the one path of the model's file system.
IsPath(f) == f.t = "string"
Exists(f, size) == IsPath(f) /\ f.s = LocalPath /\ size >= 0

\* A request that carries no content-length.
NoContentLength(length) == -1
\* The headers option of the upload request.
ContentLength(length) == length

\* The streams of the pipe whose 'error' event nicePipe re-emits on the
\* stream it returns (the last one), which eventToPromise listens to.
\* A plain .pipe() chain, which forwards no error to the last stream.
plainPipe(stage) == stage = "write"
nicePipe(stage) == stage \in {"remote", "progress", "write"}
Stages == {"remote", "progress", "write"}

(***************************************************************************)
(* State groups.                                                           *)
(***************************************************************************)
persistent == <<store, fs, lastMgmt>>
locals == <<cmd, args, params, file, storeBefore, target>>
session == <<opens, signIns, credential, calls, sentMethod, sentParams, baseUrl, result>>
io == <<transfer, fileOpens, httpReqs>>
pipe == <<remoteLen, responded, progressLen, nread, tracked, written, outOpen, failedStage>>
outcome == <<output, error, errTok>>

Init ==
  /\ variant \in {"current", "legacy"}
  /\ store \in [server : {NoUrl, ServerUrl}, token : {NoToken, "t0"}]
  /\ fs \in {-1, 1}
  /\ lastMgmt = "none"
  /\ pc = "idle"
  /\ cmd = "none"
  /\ args = <<>>
  /\ params = NoParams
  /\ file = Undefined
  /\ storeBefore = store
  /\ target = NoUrl
  /\ opens = 0
  /\ signIns = 0
  /\ credential = ""
  /\ calls = 0
  /\ sentMethod = ""
  /\ sentParams = NoParams
  /\ baseUrl = NoUrl
  /\ result = NoResult
  /\ transfer = "none"
  /\ fileOpens = 0
  /\ httpReqs = <<>>
  /\ remoteLen = 0
  /\ responded = "no"
  /\ progressLen = -1
  /\ nread = 0
  /\ tracked = 0
  /\ written = 0
  /\ outOpen = FALSE
  /\ failedStage = "none"
  /\ output = NoResult
  /\ error = "none"
  /\ errTok = <<>>

\* The invocation rejects with e.
Fail(e) ==
  /\ pc' = "done"
  /\ error' = e
  /\ UNCHANGED <<output, errTok>>

\* The invocation resolves with v.
Resolve(v) ==
  /\ pc' = "done"
  /\ output' = v
  /\ UNCHANGED <<error, errTok>>

\* new Xo(url) followed by the first request on it: xo.open() in the current
\* variant; in the legacy one the constructor connects and the sign-in call
\* is issued at once.
OpenTransport(url, cred) ==
  /\ target' = url
  /\ opens' = opens + 1
  /\ IF variant = "legacy"
     THEN pc' = "signIn" /\ signIns' = signIns + 1 /\ credential' = cred
     ELSE pc' = "open" /\ UNCHANGED <<signIns, credential>>

(***************************************************************************)
(* register / unregister                                                   *)
(***************************************************************************)
Register ==
  /\ pc = "idle"
  /\ cmd' = "register"
  /\ storeBefore' = store
  /\ OpenTransport(ServerUrl, "password")
  /\ UNCHANGED <<variant, persistent, args, params, file, calls, sentMethod,
                 sentParams, baseUrl, result, io, pipe, outcome>>

\* The remote call has settled: no request is in flight any more.
Returned ==
  /\ sentMethod' = ""
  /\ sentParams' = NoParams

\* token.create returned tok: config.set is started.
TokenCreated ==
  /\ pc = "called"
  /\ cmd = "register"
  /\ \E tok \in Tokens0 : result' = [t |-> "string", f |-> ("token" :> tok)]
  /\ pc' = "save"
  /\ Returned
  /\ UNCHANGED <<variant, persistent, locals, opens, signIns, credential, calls,
                 baseUrl, io, pipe, outcome>>

\* A register that does not persist the server.
TokenOnly(v, url, token) == [server |-> NoUrl, token |-> token]

\* The credentials register persists: the server is args[0], or xo._url in
\* the legacy variant.
Credentials(v, url, token) ==
  [server |-> IF v = "legacy" THEN XoUrl(v, url) ELSE url, token |-> token]

ConfigSaved ==
  /\ pc = "save"
  /\ store' = ConfigSet(store, Credentials(variant, target, result.f["token"]))
  /\ lastMgmt' = "register"
  /\ Resolve(NoResult)
  /\ UNCHANGED <<variant, fs, locals, session, io, pipe>>

Unregister ==
  /\ pc = "idle"
  /\ cmd' = "unregister"
  /\ storeBefore' = store
  /\ pc' = "unset"
  /\ UNCHANGED <<variant, persistent, args, params, file, target, session, io,
                 pipe, outcome>>

ConfigRemoved ==
  /\ pc = "unset"
  /\ store' = ConfigUnset(store)
  /\ lastMgmt' = IF lastMgmt \in {"register", "register-unregister"}
                 THEN "register-unregister" ELSE "unregister"
  /\ Resolve(NoResult)
  /\ UNCHANGED <<variant, fs, locals, session, io, pipe>>

(***************************************************************************)
(* listCommands / listObjects / call: the synchronous part.                *)
(***************************************************************************)
ListCommands ==
  /\ pc = "idle"
  /\ cmd' = "listCommands"
  /\ storeBefore' = store
  /\ pc' = "load"
  /\ UNCHANGED <<variant, persistent, args, params, file, target, session, io,
                 pipe, outcome>>

\* sieve = args.length ? parseParameters(args) : null, then connect().
ListObjects(list) ==
  /\ pc = "idle"
  /\ cmd' = "listObjects"
  /\ storeBefore' = store
  /\ args' = list
  /\ LET parse == parseParameters(variant, list)
     IN IF parse.ok
        THEN /\ params' = parse.params
             /\ pc' = "load"
             /\ UNCHANGED outcome
        ELSE /\ pc' = "done"
             /\ error' = parse.err
             /\ errTok' = parse.tok
             /\ UNCHANGED <<params, output>>
  /\ UNCHANGED <<variant, persistent, file, target, session, io, pipe>>

\* call([]): there is no command name.
CallNoName ==
  /\ pc = "idle"
  /\ cmd' = "call"
  /\ storeBefore' = store
  /\ Fail("MissingCommandName")
  /\ UNCHANGED <<variant, persistent, args, params, file, target, session, io, pipe>>

\* call([Method] \o list): args.shift(), parseParameters(args), the `@`
\* entry moved to `file`, then connect().
Call(list) ==
  /\ pc = "idle"
  /\ cmd' = "call"
  /\ storeBefore' = store
  /\ args' = list
  /\ LET parse == parseParameters(variant, list)
     IN IF parse.ok
        THEN /\ file' = FileOf(parse.params)
             /\ params' = StripFile(parse.params)
             /\ pc' = "load"
             /\ UNCHANGED outcome
        ELSE /\ pc' = "done"
             /\ error' = parse.err
             /\ errTok' = parse.tok
             /\ UNCHANGED <<params, file, output>>
  /\ UNCHANGED <<variant, persistent, target, session, io, pipe>>

(***************************************************************************)
(* connect                                                                 *)
(***************************************************************************)
\* The `then` callback of config.load(): the two guards, then the client.
ConfigLoaded ==
  /\ pc = "load"
  /\ LET config == ConfigLoad(store)
     IN IF CheckConfig(config) # "none"
        THEN /\ Fail(CheckConfig(config))
             /\ UNCHANGED <<target, opens, signIns, credential>>
        ELSE /\ OpenTransport(config.server, config.token)
             /\ UNCHANGED outcome
  /\ args' = <<>>
  /\ UNCHANGED <<variant, persistent, cmd, params, file, storeBefore, calls,
                 sentMethod, sentParams, baseUrl, result, io, pipe>>

\* xo.open() resolved: the sign-in is issued (token for connect, password
\* for register).
Opened ==
  /\ pc = "open"
  /\ signIns' = signIns + 1
  /\ credential' = IF cmd = "register" THEN "password" ELSE ConfigLoad(store).token
  /\ pc' = "signIn"
  /\ UNCHANGED <<variant, persistent, locals, opens, calls, sentMethod, sentParams,
                 baseUrl, result, io, pipe, outcome>>

OpenFailed ==
  /\ pc = "open"
  /\ Fail("ConnectionFailed")
  /\ UNCHANGED <<variant, persistent, locals, session, io, pipe>>

\* The remote method the command calls once it is signed in.
MethodOf(c) ==
  CASE c = "register" -> "token.create"
    [] c = "listCommands" -> "system.getMethodsInfo"
    [] c = "listObjects" -> "xo.getAllObjects"
    [] OTHER -> Method

\* What happens once the sign-in has settled: the command's call is issued
\* when it succeeded, the invocation rejects when it failed.
\* A chain that goes on to the call whether or not the sign-in succeeded.
CallAnyway(ok) == "called"
AfterSignIn(ok) == IF ok THEN "called" ELSE "done"

SignInSettled(ok) ==
  /\ pc = "signIn"
  /\ pc' = AfterSignIn(ok)
  /\ error' = IF ok THEN error
              ELSE IF cmd = "register" THEN "AuthenticationFailed" ELSE "ConnectionFailed"
  /\ IF pc' = "called"
     THEN /\ calls' = calls + 1
          /\ sentMethod' = MethodOf(cmd)
          /\ sentParams' = IF cmd = "call" THEN params ELSE NoParams
          /\ baseUrl' = IF cmd = "call" THEN BaseUrl(variant, XoUrl(variant, target)) ELSE baseUrl
     ELSE UNCHANGED <<calls, sentMethod, sentParams, baseUrl>>
  /\ UNCHANGED <<variant, persistent, locals, opens, signIns, credential, result,
                 io, pipe, output, errTok>>

SignedIn == SignInSettled(TRUE)
SignInFailed == SignInSettled(FALSE)

CallFailed ==
  /\ pc = "called"
  /\ Fail("RemoteError")
  /\ Returned
  /\ params' = NoParams
  /\ UNCHANGED <<variant, persistent, cmd, args, file, storeBefore, target, opens,
                 signIns, credential, calls, baseUrl, result, io, pipe>>

\* formatMethodsInfo: the methods as JSON or as text.
MethodsReturned ==
  /\ pc = "called"
  /\ cmd = "listCommands"
  /\ Resolve(Formatted)
  /\ Returned
  /\ params' = NoParams
  /\ UNCHANGED <<variant, persistent, cmd, args, file, storeBefore, target, opens,
                 signIns, credential, calls, baseUrl, result, io, pipe>>

\* filterObjects: filter(objects, sieve).
ObjectsReturned ==
  /\ pc = "called"
  /\ cmd = "listObjects"
  /\ Resolve(Objects(params))
  /\ Returned
  /\ params' = NoParams
  /\ UNCHANGED <<variant, persistent, cmd, args, file, storeBefore, target, opens,
                 signIns, credential, calls, baseUrl, result, io, pipe>>

(***************************************************************************)
(* handleResult and the two transfers.                                     *)
(***************************************************************************)
Get(url) == [method |-> "GET", url |-> url, length |-> -1]
Post(url, length) == [method |-> "POST", url |-> url, length |-> ContentLength(length)]

\* The remote call of `call` returned r.
HandleResult(r) ==
  /\ pc = "called"
  /\ cmd = "call"
  /\ result' = r
  /\ Returned
  /\ params' = NoParams
  /\ transfer' = TransferKind(r)
  /\ CASE TransferKind(r) = "download" ->
            \* createWriteStream(file) throws unless file is a path
            IF IsPath(file)
            THEN /\ fileOpens' = fileOpens + 1
                 /\ httpReqs' = Append(httpReqs, Get(resolveUrl(baseUrl, SentinelPath(r))))
                 /\ pc' = "download"
                 /\ remoteLen' \in 0..MaxLen
                 /\ UNCHANGED outcome
            ELSE /\ Fail("TypeError")
                 /\ UNCHANGED <<fileOpens, httpReqs, remoteLen>>
       [] TransferKind(r) = "upload" ->
            /\ pc' = "stat"
            /\ UNCHANGED <<fileOpens, httpReqs, remoteLen, outcome>>
       [] OTHER ->
            /\ Resolve(r)
            /\ UNCHANGED <<fileOpens, httpReqs, remoteLen>>
  /\ UNCHANGED <<variant, persistent, cmd, args, file, storeBefore, target, opens,
                 signIns, credential, calls, baseUrl, responded, progressLen, nread, tracked,
                 written, outOpen, failedStage>>

\* stat(file) settled: the upload request is issued when the file exists.
Stat ==
  /\ pc = "stat"
  /\ IF ~IsPath(file) THEN
       /\ Fail("TypeError")
       /\ UNCHANGED <<fileOpens, httpReqs>>
     ELSE IF ~Exists(file, fs) THEN
       /\ Fail("LocalFileNotFound")
       /\ UNCHANGED <<fileOpens, httpReqs>>
     ELSE
       /\ fileOpens' = fileOpens + 1
       /\ httpReqs' = Append(httpReqs, Post(resolveUrl(baseUrl, SentinelPath(result)), fs))
       /\ pc' = "upload"
       /\ UNCHANGED outcome
  /\ UNCHANGED <<variant, persistent, locals, session, transfer, pipe>>

\* The POST was answered: response.body is the output.
Posted ==
  /\ pc = "upload"
  /\ \E body \in Bodies : Resolve(body)
  /\ UNCHANGED <<variant, persistent, locals, session, io, pipe>>

PostFailed ==
  /\ pc = "upload"
  /\ Fail("TransferFailed")
  /\ UNCHANGED <<variant, persistent, locals, session, io, pipe>>

Piping == pc = "download" /\ failedStage = "none"

\* The output stream opened the file: it exists and is empty.
FileOpened ==
  /\ Piping
  /\ ~outOpen
  /\ outOpen' = TRUE
  /\ fs' = 0
  /\ UNCHANGED <<variant, store, lastMgmt, pc, locals, session, io, remoteLen,
                 responded, progressLen, nread, tracked, written, failedStage, outcome>>

\* The 'response' event: a declared content-length is given to the tracker.
Response(declared) ==
  /\ Piping
  /\ responded = "no"
  /\ responded' = IF declared THEN "length" ELSE "unknown"
  /\ progressLen' = IF declared /\ variant = "current" THEN remoteLen ELSE progressLen
  /\ UNCHANGED <<variant, persistent, pc, locals, session, io, remoteLen, nread,
                 tracked, written, outOpen, failedStage, outcome>>

RemoteData ==
  /\ Piping
  /\ responded # "no"
  /\ nread < remoteLen
  /\ nread' = nread + 1
  /\ UNCHANGED <<variant, persistent, pc, locals, session, io, remoteLen, responded,
                 progressLen, tracked, written, outOpen, failedStage, outcome>>

Tracked ==
  /\ Piping
  /\ tracked < nread
  /\ tracked' = tracked + 1
  /\ UNCHANGED <<variant, persistent, pc, locals, session, io, remoteLen, responded,
                 progressLen, nread, written, outOpen, failedStage, outcome>>

Written ==
  /\ Piping
  /\ outOpen
  /\ written < tracked
  /\ written' = written + 1
  /\ fs' = written + 1
  /\ UNCHANGED <<variant, store, lastMgmt, pc, locals, session, io, remoteLen,
                 responded, progressLen, nread, tracked, outOpen, failedStage, outcome>>

\* 'finish' of the output stream: every byte of the ended source is written.
Finished ==
  /\ Piping
  /\ outOpen
  /\ responded # "no"
  /\ nread = remoteLen
  /\ written = remoteLen
  /\ Resolve(NoResult)
  /\ UNCHANGED <<variant, persistent, locals, session, io, pipe>>

\* An 'error' event in one stage of the pipe.
StreamError(stage) ==
  /\ Piping
  /\ failedStage' = stage
  /\ IF nicePipe(stage) THEN Fail("TransferFailed") ELSE UNCHANGED <<pc, outcome>>
  /\ UNCHANGED <<variant, persistent, locals, session, io, remoteLen, responded,
                 progressLen, nread, tracked, written, outOpen>>

\* The process exits; the next invocation starts from the same store and file.
Exit ==
  /\ pc = "done"
  /\ pc' = "idle"
  /\ cmd' = "none"
  /\ args' = <<>>
  /\ params' = NoParams
  /\ file' = Undefined
  /\ storeBefore' = store
  /\ target' = NoUrl
  /\ opens' = 0
  /\ signIns' = 0
  /\ credential' = ""
  /\ calls' = 0
  /\ sentMethod' = ""
  /\ sentParams' = NoParams
  /\ baseUrl' = NoUrl
  /\ result' = NoResult
  /\ transfer' = "none"
  /\ fileOpens' = 0
  /\ httpReqs' = <<>>
  /\ remoteLen' = 0
  /\ responded' = "no"
  /\ progressLen' = -1
  /\ nread' = 0
  /\ tracked' = 0
  /\ written' = 0
  /\ outOpen' = FALSE
  /\ failedStage' = "none"
  /\ output' = NoResult
  /\ error' = "none"
  /\ errTok' = <<>>
  /\ UNCHANGED <<variant, persistent>>

\* The two commands that take name=value tokens, on any argument list.
listObjects == pc = "idle" /\ \E list \in AllArgLists : ListObjects(list)
call == pc = "idle" /\ \E list \in AllArgLists : Call(list)

Next ==
  \/ Register
  \/ TokenCreated
  \/ ConfigSaved
  \/ Unregister
  \/ ConfigRemoved
  \/ ListCommands
  \/ listObjects
  \/ CallNoName
  \/ call
  \/ ConfigLoaded
  \/ Opened
  \/ OpenFailed
  \/ SignedIn
  \/ SignInFailed
  \/ CallFailed
  \/ MethodsReturned
  \/ ObjectsReturned
  \/ \E r \in Results : HandleResult(r)
  \/ Stat
  \/ Posted
  \/ PostFailed
  \/ FileOpened
  \/ \E declared \in BOOLEAN : Response(declared)
  \/ RemoteData
  \/ Tracked
  \/ Written
  \/ Finished
  \/ \E stage \in Stages : StreamError(stage)
  \/ Exit

Spec == Init /\ [][Next]_vars

(***************************************************************************)
(* Properties.                                                             *)
(***************************************************************************)
AuthCmds == {"call", "listCommands", "listObjects"}
ParseErrors == {"MissingCommandName", "MalformedArgument", "InvalidJson"}
NoContact == opens = 0 /\ signIns = 0 /\ calls = 0

\* The state right after the synchronous parse of a non-empty argument list.
JustParsed == cmd \in {"call", "listObjects"} /\ args # <<>> /\ pc \in {"load", "done"}

\* The token grammar: a name of one or more non-"=" characters, "=", any value.
Grammatical(tok) ==
  \E i \in 2..Len(tok) : tok[i] = "=" /\ \A j \in 1..(i - 1) : tok[j] # "="

NameOf(tok) == SubSeq(tok, 1, (CHOOSE i \in 1..Len(tok) : tok[i] = "=" /\ \A j \in 1..(i - 1) : tok[j] # "=") - 1)
RawOf(tok) == SubSeq(tok, Len(NameOf(tok)) + 2, Len(tok))

\* The value the parser is to store for a raw value text.
Tagged(raw) == Len(raw) >= 5 /\ SubSeq(raw, 1, 5) = JsonTag
Expected(raw) ==
  IF Tagged(raw) THEN JsonParse(SubSeq(raw, 6, Len(raw)))
  ELSE IF raw = TrueText THEN Bool(TRUE)
  ELSE IF raw = FalseText THEN Bool(FALSE)
  ELSE Str(raw)

\* The last token of the list that names n.
LastNamed(list, n) ==
  list[CHOOSE i \in 1..Len(list) :
         /\ NameOf(list[i]) = n
         /\ \A j \in (i + 1)..Len(list) : NameOf(list[j]) # n]

\* C8: for every valid token name=value with a name other than `@`,
\* parseParameters stores under name the JSON parse of the remainder when the
\* value starts with `json:` (InvalidJson when it is malformed) with no further
\* coercion, otherwise true/false for the texts `true`/`false`, otherwise the
\* value as a string (stated of the variant that decodes `json:` values).
C8_ValueDecoding ==
  (variant = "current" /\ JustParsed /\ error # "MalformedArgument") =>
    IF \E i \in 1..Len(args) :
         Tagged(RawOf(args[i])) /\ ~JsonValid(SubSeq(RawOf(args[i]), 6, Len(RawOf(args[i]))))
    THEN pc = "done" /\ error = "InvalidJson"
    ELSE /\ pc = "load"
         /\ \A i \in 1..Len(args) :
              LET n == NameOf(args[i])
              IN n # At =>
                   /\ n \in DOMAIN params
                   /\ params[n] = Expected(RawOf(LastNamed(args, n)))

\* The first token of the list that the grammar rejects, when every token
\* before it parses.
FirstRejected(list, i) ==
  /\ ~Grammatical(list[i])
  /\ \A j \in 1..(i - 1) :
       /\ Grammatical(list[j])
       /\ ~(Tagged(RawOf(list[j])) /\ ~JsonValid(SubSeq(RawOf(list[j]), 6, Len(RawOf(list[j])))))

\* C9: parseParameters accepts a token exactly when it is a name of one or
\* more non-"=" characters, "=", and a value of zero or more characters of any
\* kind; any other token fails the whole parse with MalformedArgument naming
\* that token, no parameter set is produced and no connection is attempted.
C9_TokenGrammar ==
  JustParsed =>
    /\ \A i \in 1..Len(args) :
         FirstRejected(args, i) =>
           /\ pc = "done"
           /\ error = "MalformedArgument"
           /\ errTok = args[i]
           /\ params = NoParams
           /\ NoContact
    /\ (\A i \in 1..Len(args) : Grammatical(args[i])) => error # "MalformedArgument"

\* The result is a transfer sentinel: a keyed object whose only key is
\* `$getFrom` or `$sendTo`.
Sentinel(r) ==
  /\ r.t = "object"
  /\ \E k \in {"$getFrom", "$sendTo"} : DOMAIN r.f = {k}

Handled == cmd = "call" /\ result # NoResult

\* C1: handleResult starts a transfer if and only if the result is a keyed
\* object with exactly one key and that key is `$getFrom` (download) or
\* `$sendTo` (upload); every other result is returned unchanged, no local file
\* is opened and no HTTP request is issued.
C1_TransferIffSentinel ==
  /\ ~Handled => transfer = "none" /\ fileOpens = 0 /\ httpReqs = <<>>
  /\ Handled =>
       /\ transfer = "download" <=> (result.t = "object" /\ DOMAIN result.f = {"$getFrom"})
       /\ transfer = "upload" <=> (result.t = "object" /\ DOMAIN result.f = {"$sendTo"})
       /\ ~Sentinel(result) =>
            /\ pc = "done"
            /\ error = "none"
            /\ output = result
            /\ fileOpens = 0
            /\ httpReqs = <<>>

C1_Witness ==
  /\ pc = "done"
  /\ Cardinality(DOMAIN result.f) = 2
  /\ "$getFrom" \in DOMAIN result.f
  /\ output = result
  /\ file = Str(LocalPath)

\* C2: the parameter mapping transmitted by call never contains `@`: it is the
\* parsed name=value pairs with the `@` entry removed, and the value of `@`
\* only becomes the local file path.
C2_FileNeverSent ==
  /\ At \notin DOMAIN sentParams
  /\ (cmd = "call" /\ pc = "called") => sentParams = params /\ sentMethod = Method
  /\ cmd = "call" => At \notin DOMAIN params
  /\ (cmd = "call" /\ pc = "load") =>
       LET all == parseParameters(variant, args).params
       IN /\ DOMAIN params = {NameOf(args[i]) : i \in 1..Len(args)} \ {At}
          /\ \A n \in DOMAIN params : params[n] = all[n]
          /\ file = IF \E i \in 1..Len(args) : NameOf(args[i]) = At THEN all[At] ELSE Undefined

C2_Witness ==
  /\ cmd = "call"
  /\ pc = "called"
  /\ file = Str(LocalPath)
  /\ DOMAIN sentParams = {<<"a">>}

\* The invocation went through connect and connect has settled.
Connected == cmd \in AuthCmds /\ pc \notin {"idle", "load"} /\ error \notin ParseErrors

\* C3: connect fails with NotConfigured when the stored server URL is absent
\* (whatever the token) and with NotAuthenticated when the server URL is
\* present and the token absent, in both cases without opening a transport,
\* signing in or calling; only when both are present does it open the
\* transport and sign in with the token.
C3_ConnectGuards ==
  /\ Connected =>
       /\ store.server = NoUrl => pc = "done" /\ error = "NotConfigured" /\ NoContact
       /\ (store.server # NoUrl /\ store.token = NoToken) =>
            pc = "done" /\ error = "NotAuthenticated" /\ NoContact
       /\ (store.server # NoUrl /\ store.token # NoToken) =>
            /\ opens = 1
            /\ target = store.server
            /\ error \notin {"NotConfigured", "NotAuthenticated"}
            /\ signIns > 0 => credential = store.token
  /\ (cmd \in AuthCmds /\ ~NoContact) => store.server # NoUrl /\ store.token # NoToken

C3_Witness ==
  /\ cmd = "call"
  /\ pc = "done"
  /\ error = "NotAuthenticated"
  /\ store.server = ServerUrl

Unconfigured(s) == s.server = NoUrl /\ s.token = NoToken

C5_Upload ==
  (transfer = "upload" /\ IsPath(file) /\ pc # "stat") =>
    IF Exists(file, fs)
    THEN /\ pc \in {"upload", "done"}
         /\ Len(httpReqs) = 1
         /\ httpReqs[1].method = "POST"
         /\ httpReqs[1].url = resolveUrl(baseUrl, result.f["$sendTo"])
         /\ httpReqs[1].length = fs
         /\ error \in {"none", "TransferFailed"}
         /\ (pc = "done" /\ error = "none") => output \in Bodies
    ELSE /\ pc = "done"
         /\ error = "LocalFileNotFound"
         /\ httpReqs = <<>>
         /\ fileOpens = 0

C5_Witness ==
  /\ transfer = "upload"
  /\ pc = "done"
  /\ error = "none"
  /\ httpReqs[1].length = MaxLen
  /\ output \in Bodies

\* The stages of one invocation, as far as its counters show them.
C6_Stages ==
  /\ opens <= 1 /\ signIns <= 1 /\ calls <= 1
  /\ fileOpens <= 1 /\ Len(httpReqs) <= 1
  /\ signIns = 1 => opens = 1
  /\ calls = 1 => signIns = 1
  /\ cmd \in AuthCmds =>
       /\ opens = 1 => CheckConfig(storeBefore) = "none"
       /\ pc = "called" => calls = 1 /\ error = "none" /\ result = NoResult
       /\ result # NoResult => calls = 1 /\ cmd = "call"
       /\ transfer # "none" => result # NoResult /\ Sentinel(result)
       /\ (fileOpens > 0 \/ httpReqs # <<>>) => transfer # "none"
       /\ (pc = "done" /\ error = "none") => calls = 1
  /\ error # "none" => pc = "done"

\* C6: one invocation performs exactly one remote call and at most one file
\* transfer, in sequence: the call only after connect succeeded, the dispatch
\* only after the call returned, a transfer only after a sentinel was
\* recognised; once a stage has failed nothing more runs.
C6_SingleFlight ==
  [][/\ C6_Stages'
     /\ error # "none" => pc' = "idle"
     /\ pc' # "idle" => /\ opens' >= opens /\ signIns' >= signIns /\ calls' >= calls
                        /\ Len(httpReqs') >= Len(httpReqs)]_vars

C6_Witness ==
  /\ cmd = "call"
  /\ pc = "done"
  /\ error = "none"
  /\ transfer = "download"
  /\ calls = 1
  /\ Len(httpReqs) = 1

C7_Download ==
  transfer = "download" =>
    /\ (pc = "done" /\ error = "none") =>
         outOpen /\ nread = remoteLen /\ written = remoteLen /\ fs = remoteLen
    /\ failedStage # "none" => pc = "done" /\ error = "TransferFailed"
    /\ (pc = "done" /\ error = "TransferFailed") => failedStage # "none"
    /\ outOpen => fs = written

\* C7: on the download sentinel the dispatch resolves only after the write of
\* the local file has completed; an error in any stage of the pipe (remote
\* read, progress tracker, local write) fails it with TransferFailed, and the
\* local file is then left as it is, possibly partial, and not removed.
C7_DownloadSettles ==
  [][/\ C7_Download'
     /\ (pc = "download" /\ failedStage' # "none") => fs' = fs /\ pc' = "done"
     /\ (pc = "done" /\ transfer = "download") => fs' = fs]_vars

C7_Witness ==
  /\ pc = "done"
  /\ error = "TransferFailed"
  /\ failedStage = "remote"
  /\ remoteLen = 2
  /\ fs = 1

\* C10: register writes {server, token} to the store only after the transport
\* has opened, the password sign-in has succeeded and token.create has
\* returned, in that order; when any of these fails the store is left as it
\* was, and token.create is never called after a failed sign-in.
C10_RegisterFrame ==
  cmd = "register" =>
    /\ signIns = 1 => opens = 1 /\ credential = "password"
    /\ calls = 1 => signIns = 1 /\ sentMethod \in {"token.create", ""}
    /\ error = "AuthenticationFailed" => calls = 0
    /\ error # "none" => store = storeBefore /\ pc = "done"
    /\ pc # "done" => store = storeBefore
    /\ store # storeBefore =>
         /\ opens = 1 /\ signIns = 1 /\ calls = 1
         /\ result.t = "string"
    /\ (pc = "done" /\ error = "none") =>
         /\ calls = 1
         /\ store.token = result.f["token"]
         /\ store.server = IF variant = "legacy" THEN XoUrl(variant, target) ELSE target
         /\ store.server # NoUrl

C10_Witness ==
  /\ cmd = "register"
  /\ pc = "done"
  /\ error = "AuthenticationFailed"
  /\ store = [server |-> ServerUrl, token |-> "t0"]

====
